---------------------------- MODULE Spec2Model ----------------------------
(***************************************************************************)
(* Course catalog web application (Flask): five entry points app.py,       *)
(* app2.py, app3.py, app_jaeger.py and jaeger_trail.py over one JSON file, *)
(* course_catalog.json.                                                    *)
(*                                                                         *)
(* Two specifications share the definitions of the file format and of the  *)
(* handlers:                                                               *)
(*   Spec      the five entry points side by side, each with its own file, *)
(*             serving the same requests one after another;                *)
(*   ConcSpec  one server (app.py) serving requests concurrently on one    *)
(*             file, every handler cut at its file-system calls.           *)
(*                                                                         *)
(* Strings are sequences of characters, a file's text is a sequence of     *)
(* symbols.  Tracing spans and log records go to the observability sink    *)
(* and change no state of the application: they are not modelled.          *)
(***************************************************************************)
EXTENDS Integers, Sequences, FiniteSets, TLC

(***************************************************************************)
(* Bounds of the model.                                                    *)
(***************************************************************************)
MaxCourses == 2     \* longest collection a file of Spec may hold
NumProcs   == 2     \* concurrent requests of ConcSpec
BufSize    == 12    \* symbols one write() system call carries (io buffer)

(***************************************************************************)
(* Python values.  None is request.form.get() of an absent field and JSON  *)
(* null; a str is the sequence of its characters ("" is << >>).            *)
(***************************************************************************)
None == <<"None">>

Falsy(v) == v = None \/ v = << >>

Keys == <<"name", "instructor", "semester", "code">>

KeySym(k) == <<"key", k>>

(***************************************************************************)
(* Symbols of a JSON text.  A symbol is a pair <<class, spelling>>: a      *)
(* punctuation mark, the literal null, a key with its quotes and colon, a  *)
(* string quote, or one character of a string.  Whitespace (indent=4) is   *)
(* skipped by the parser between symbols and is left out.                  *)
(***************************************************************************)
P(s) == <<"punct", s>>

Quote == <<"quote", "\"">>

Null == <<"null", "null">>

Ch(c) == <<"char", c>>

IsKeySym(s) == s[1] = "key"

RECURSIVE Chars(_)
Chars(str) ==
    IF str = << >> THEN << >> ELSE <<Ch(Head(str))>> \o Chars(Tail(str))

(***************************************************************************)
(* json.dump(courses, file, indent=4): the text written for a list of      *)
(* dicts with the keys name, instructor, semester, code in that order.     *)
(***************************************************************************)
dump_value(v) ==
    IF v = None THEN <<Null>> ELSE <<Quote>> \o Chars(v) \o <<Quote>>

RECURSIVE dump_items(_, _)
dump_items(course, i) ==
    IF i > Len(Keys) THEN << >>
    ELSE (IF i > 1 THEN <<P(",")>> ELSE << >>)
         \o <<KeySym(Keys[i])>> \o dump_value(course[Keys[i]])
         \o dump_items(course, i + 1)

dump_course(course) == <<P("{")>> \o dump_items(course, 1) \o <<P("}")>>

RECURSIVE dump_list(_, _)
dump_list(courses, i) ==
    IF i > Len(courses) THEN << >>
    ELSE (IF i > 1 THEN <<P(",")>> ELSE << >>)
         \o dump_course(courses[i]) \o dump_list(courses, i + 1)

json_dump(courses) == <<P("[")>> \o dump_list(courses, 1) \o <<P("]")>>

(***************************************************************************)
(* json.load(file): a recursive-descent parse of the text.  Every parser   *)
(* returns [ok, val, next]: whether it succeeded, the value, and the index *)
(* of the first symbol it did not consume.  A failure is JSONDecodeError.  *)
(***************************************************************************)
Fail == [ok |-> FALSE, val |-> << >>, next |-> 0]

Ok(v, n) == [ok |-> TRUE, val |-> v, next |-> n]

\* a string: the characters up to the next quote.  A key symbol begins with
\* a quote, which would end the string in front of a bare word: an error.
RECURSIVE parse_string(_, _, _)
parse_string(text, i, acc) ==
    IF i > Len(text) THEN Fail
    ELSE IF text[i] = Quote THEN Ok(acc, i + 1)
    ELSE IF IsKeySym(text[i]) THEN Fail
    ELSE parse_string(text, i + 1, Append(acc, text[i][2]))

parse_value(text, i) ==
    IF i > Len(text) THEN Fail
    ELSE IF text[i] = Null THEN Ok(None, i + 1)
    ELSE IF text[i] = Quote THEN parse_string(text, i + 1, << >>)
    ELSE Fail

\* d[k] = v of a dict: a repeated key keeps the last value.
setitem(d, k, v) == [x \in (DOMAIN d) \cup {k} |-> IF x = k THEN v ELSE d[x]]

\* the members of an object after its "{" or after a ",": key, value, then
\* "," or "}".  acc maps the keys read so far; after_value goes on from the
\* parsed value v of the key k.
RECURSIVE parse_members(_, _, _)
RECURSIVE after_value(_, _, _, _)
after_value(text, acc, k, v) ==
    IF ~v.ok \/ v.next > Len(text) THEN Fail
    ELSE IF text[v.next] = P("}") THEN Ok(setitem(acc, k, v.val), v.next + 1)
    ELSE IF text[v.next] = P(",")
         THEN parse_members(text, v.next + 1, setitem(acc, k, v.val))
    ELSE Fail

parse_members(text, i, acc) ==
    IF i > Len(text) \/ ~IsKeySym(text[i]) THEN Fail
    ELSE after_value(text, acc, text[i][2], parse_value(text, i + 1))

EmptyDict == [x \in {} |-> << >>]

parse_object(text, i) ==
    IF i > Len(text) \/ text[i] # P("{") THEN Fail
    ELSE IF i + 1 <= Len(text) /\ text[i + 1] = P("}") THEN Ok(EmptyDict, i + 2)
    ELSE parse_members(text, i + 1, EmptyDict)

\* the elements of an array after its "[" or after a ",": the application
\* only ever writes arrays of objects.  after_object goes on from the parsed
\* object o.
RECURSIVE parse_elements(_, _, _)
RECURSIVE after_object(_, _, _)
after_object(text, acc, o) ==
    IF ~o.ok \/ o.next > Len(text) THEN Fail
    ELSE IF text[o.next] = P("]") THEN Ok(Append(acc, o.val), o.next + 1)
    ELSE IF text[o.next] = P(",")
         THEN parse_elements(text, o.next + 1, Append(acc, o.val))
    ELSE Fail

parse_elements(text, i, acc) == after_object(text, acc, parse_object(text, i))

parse_array(text) ==
    IF Len(text) < 2 \/ text[1] # P("[") THEN Fail
    ELSE IF text[2] = P("]") THEN Ok(<< >>, 3)
    ELSE parse_elements(text, 2, << >>)

\* the whole document: one array and nothing after it ("Extra data").
end_of_document(text, a) ==
    IF a.ok /\ a.next = Len(text) + 1 THEN [ok |-> TRUE, val |-> a.val]
    ELSE [ok |-> FALSE, val |-> << >>]

json_load(text) == end_of_document(text, parse_array(text))

(***************************************************************************)
(* The file COURSE_FILE: whether it exists, and its text.                  *)
(***************************************************************************)
Absent == [exists |-> FALSE, text |-> << >>]

FileOf(text) == [exists |-> TRUE, text |-> text]

\* as open_w, opening without truncating.
open_w_keep(file) == FileOf(file.text)

\* open(COURSE_FILE, 'w'): creates the file, or truncates it to nothing.
open_w(file) == FileOf(<< >>)

\* write() of a chunk at offset off of a file opened without O_APPEND: the
\* chunk replaces what was there, and whatever lies behind it stays.
\* A write behind the end of the file leaves a hole of NUL bytes.
Nul == <<"nul", "0">>

write_at(text, off, chunk) ==
    LET end == off + Len(chunk)
        len == IF end > Len(text) THEN end ELSE Len(text)
    IN  IF chunk = << >> THEN text
        ELSE [i \in 1..len |->
                 IF i > off /\ i <= end THEN chunk[i - off]
                 ELSE IF i <= Len(text) THEN text[i]
                 ELSE Nul]

\* as load_courses, taking a file that does not parse for an empty one.
load_courses_lenient(file) ==
    IF ~file.exists THEN [ok |-> TRUE, val |-> << >>]
    ELSE [ok |-> TRUE, val |-> json_load(file.text).val]

\* load_courses(): [] when the file does not exist, else json.load of it;
\* ok = FALSE is json.JSONDecodeError leaving the function.  The file is
\* never removed, so the exists() test and the read act as one step.
load_courses(file) ==
    IF ~file.exists THEN [ok |-> TRUE, val |-> << >>]
    ELSE json_load(file.text)

(***************************************************************************)
(* A request in progress: the file, the notices flashed so far, the        *)
(* visible effects in the order they happened, the response once the       *)
(* handler has returned (or the exception that left it), and the courses   *)
(* handed to the template it rendered.                                     *)
(***************************************************************************)
NoResult == [kind |-> "none", target |-> ""]

Begin(file) ==
    [file |-> file, flashes |-> << >>, events |-> << >>, result |-> NoResult,
     shown |-> << >>]

flash(w, message, category) ==
    [w EXCEPT !.flashes = Append(@, [category |-> category, message |-> message]),
              !.events = Append(@, "flash")]

render_template(w, template, courses) ==
    [w EXCEPT !.result = [kind |-> "render", target |-> template],
              !.events = Append(@, "render"),
              !.shown = courses]

redirect(w, endpoint) ==
    [w EXCEPT !.result = [kind |-> "redirect", target |-> endpoint],
              !.events = Append(@, "redirect")]

raise(w, exception) ==
    [w EXCEPT !.result = [kind |-> "error", target |-> exception],
              !.events = Append(@, "raise")]

\* as append_and_dump, inserting the new course in front.
append_and_dump_front(w, data, l) ==
    IF ~l.ok THEN raise(w, "JSONDecodeError")
    ELSE [w EXCEPT !.file = FileOf(write_at(open_w(w.file).text, 0,
                                             json_dump(<<data>> \o l.val))),
                   !.events = Append(@, "write")]

\* save_courses once load_courses has returned l (or raised): append, open
\* for writing, dump.  With no other request running the dump lands on the
\* file just truncated.
append_and_dump(w, data, l) ==
    IF ~l.ok THEN raise(w, "JSONDecodeError")
    ELSE [w EXCEPT !.file = FileOf(write_at(open_w(w.file).text, 0,
                                             json_dump(Append(l.val, data)))),
                   !.events = Append(@, "write")]

\* save_courses(data): load, append, open for writing, dump.
save_courses(w, data) == append_and_dump(w, data, load_courses(w.file))

(***************************************************************************)
(* The route handlers.                                                     *)
(***************************************************************************)
index(w) == render_template(w, "index.html", << >>)

\* course_catalog once load_courses has returned l (or raised).
catalog_of(w, l) ==
    IF ~l.ok THEN raise(w, "JSONDecodeError")
    ELSE render_template(w, "course_catalog.html", l.val)

course_catalog(w) == catalog_of(w, load_courses(w.file))

\* as first_match, keeping the last match instead of the first.
RECURSIVE first_match_last(_, _, _)
first_match_last(courses, code, i) ==
    IF i > Len(courses) THEN 0
    ELSE IF "code" \notin DOMAIN courses[i] THEN -1
    ELSE LET rest == first_match_last(courses, code, i + 1)
         IN  IF rest # 0 THEN rest
             ELSE IF courses[i]["code"] = code THEN i ELSE 0

\* next((course for course in courses if course['code'] == code), None):
\* the index of the first match, 0 for None, -1 when a dict without the key
\* 'code' is met before any match (KeyError).
RECURSIVE first_match(_, _, _)
first_match(courses, code, i) ==
    IF i > Len(courses) THEN 0
    ELSE IF "code" \notin DOMAIN courses[i] THEN -1
    ELSE IF courses[i]["code"] = code THEN i
    ELSE first_match(courses, code, i + 1)

not_found_message(code) == <<"No course found with code '">> \o code \o <<"'.">>

\* as details_of, redirecting without the flash.
details_of_silent(w, code, courses, i) ==
    IF i = -1 THEN raise(w, "KeyError")
    ELSE IF i = 0 \/ DOMAIN courses[i] = {}
         THEN redirect(w, "course_catalog")
    ELSE render_template(w, "course_details.html", <<courses[i]>>)

\* course_details after the search came to index i of courses.
\* `if not course`: None, or a dict with no key at all.
details_of(w, code, courses, i) ==
    IF i = -1 THEN raise(w, "KeyError")
    ELSE IF i = 0 \/ DOMAIN courses[i] = {}
         THEN redirect(flash(w, not_found_message(code), "error"),
                       "course_catalog")
    ELSE render_template(w, "course_details.html", <<courses[i]>>)

\* course_details once load_courses has returned l (or raised).
search_in(w, code, l) ==
    IF ~l.ok THEN raise(w, "JSONDecodeError")
    ELSE details_of(w, code, l.val, first_match(l.val, code, 1))

course_details(w, code) == search_in(w, code, load_courses(w.file))

\* the dict add_course builds from the form.
course_of(form) ==
    [name |-> form.name, instructor |-> form.instructor,
     semester |-> form.semester, code |-> form.code]

RECURSIVE join(_, _)
join(sep, list) ==
    IF list = << >> THEN << >>
    ELSE IF Len(list) = 1 THEN list
    ELSE <<Head(list), sep>> \o join(sep, Tail(list))

\* as missing_fields, without the check of the semester.
missing_fields_no_semester(form) ==
    (IF Falsy(form.name) THEN <<"Course Name">> ELSE << >>)
    \o (IF Falsy(form.instructor) THEN <<"Instructor">> ELSE << >>)
    \o (IF Falsy(form.code) THEN <<"Course Code">> ELSE << >>)

\* the four `if not ...: missing_fields.append(...)` of the strict handlers.
missing_fields(form) ==
    (IF Falsy(form.name) THEN <<"Course Name">> ELSE << >>)
    \o (IF Falsy(form.instructor) THEN <<"Instructor">> ELSE << >>)
    \o (IF Falsy(form.semester) THEN <<"Semester">> ELSE << >>)
    \o (IF Falsy(form.code) THEN <<"Course Code">> ELSE << >>)

missing_message(missing) ==
    <<"Error: The following fields are required: ">> \o join(", ", missing) \o <<".">>

added_message(name) == <<"Course '">> \o name \o <<"' added successfully!">>

\* as add_and_redirect, flashing the success before the save.
add_and_redirect_flash_first(w, form) ==
    LET s == save_courses(flash(w, added_message(form.name), "success"),
                          course_of(form))
    IN  IF s.result.kind = "error" THEN s ELSE redirect(s, "course_catalog")

\* add_course after save_courses: s is the request as save_courses left it;
\* an exception that left save_courses leaves the handler too.
flash_and_redirect(s, form) ==
    IF s.result.kind = "error" THEN s
    ELSE redirect(flash(s, added_message(form.name), "success"), "course_catalog")

\* the tail of every add_course: build the course, save it, flash the
\* success, redirect.
add_and_redirect(w, form) ==
    flash_and_redirect(save_courses(w, course_of(form)), form)

\* add_course of app.py, app_jaeger.py and jaeger_trail.py.
add_course_strict(w, method, form) ==
    IF method = "POST"
    THEN IF missing_fields(form) # << >>
         THEN redirect(flash(w, missing_message(missing_fields(form)), "error"),
                       "add_course")
         ELSE add_and_redirect(w, form)
    ELSE render_template(w, "add_course.html", << >>)

\* as add_course_lax, checking the name alone.
add_course_lax_name_only(w, method, form) ==
    IF method = "POST"
    THEN IF Falsy(form.name)
         THEN redirect(flash(w, <<"Error: Course name and instructor are required.">>,
                             "error"),
                       "add_course")
         ELSE add_and_redirect(w, form)
    ELSE render_template(w, "add_course.html", << >>)

\* add_course of app2.py and app3.py.
add_course_lax(w, method, form) ==
    IF method = "POST"
    THEN IF Falsy(form.name) \/ Falsy(form.instructor)
         THEN redirect(flash(w, <<"Error: Course name and instructor are required.">>,
                             "error"),
                       "add_course")
         ELSE add_and_redirect(w, form)
    ELSE render_template(w, "add_course.html", << >>)

Apps == {"app", "app2", "app3", "app_jaeger", "jaeger_trail"}

StrictApps == {"app", "app_jaeger", "jaeger_trail"}

add_course(app, w, method, form) ==
    IF app \in StrictApps THEN add_course_strict(w, method, form)
    ELSE add_course_lax(w, method, form)

(***************************************************************************)
(* Spec: the five entry points side by side.  Every one starts from the    *)
(* same file and is sent the same requests, one after another; srv[a] is   *)
(* the last request of entry point a as it finished: its file, store[a],   *)
(* and what it answered to the request req, resp[a].  base, valid_adds and *)
(* other_posts remember the run: the initial file, the courses of the      *)
(* POSTs that had all four fields, and whether a POST with a field missing *)
(* was sent.                                                               *)
(***************************************************************************)
VARIABLES srv, req, base, valid_adds, other_posts

seqvars == <<srv, req, base, valid_adds, other_posts>>

Form(n, i, s, c) == [name |-> n, instructor |-> i, semester |-> s, code |-> c]

\* the forms submitted: every pattern of missing fields (absent or empty),
\* and courses that share a code or differ in it.
Forms ==
    [name : {<< >>, <<"n">>}, instructor : {None, <<"i">>},
     semester : {None, <<"s">>}, code : {<< >>, <<"x">>}]
    \cup { Form(<<"n">>, <<"i">>, <<"t">>, <<"x">>),
           Form(<<"n">>, <<"i">>, <<"s">>, None) }

NoForm == [name |-> None, instructor |-> None, semester |-> None, code |-> None]

\* <code> of /course/<code>: the route matches no empty segment.
PathCodes == {<<"x">>, <<"y">>}

InitCollections == { << >>, <<Form(<<"n">>, <<"i">>, <<"t">>, <<"y">>)>> }

\* a file cut short: every proper prefix of a written collection.
TruncatedTexts ==
    LET t == json_dump(<<Form(<<"n">>, <<"i">>, <<"s">>, <<"x">>)>>)
    IN  { SubSeq(t, 1, k) : k \in 0..(Len(t) - 1) }

InitFiles ==
    {Absent} \cup { FileOf(json_dump(c)) : c \in InitCollections }
             \cup { FileOf(t) : t \in TruncatedTexts }

Request(method, path, code, form) ==
    [method |-> method, path |-> path, code |-> code, form |-> form]

NoRequest == Request("", "", << >>, NoForm)

Response(w) ==
    [kind |-> w.result.kind, target |-> w.result.target,
     flashes |-> w.flashes, events |-> w.events, shown |-> w.shown]

store == [a \in Apps |-> srv[a].file]

resp == [a \in Apps |-> Response(srv[a])]

Count(file) == Len(load_courses(file).val)

AllPresent(form) ==
    ~Falsy(form.name) /\ ~Falsy(form.instructor)
    /\ ~Falsy(form.semester) /\ ~Falsy(form.code)

(***************************************************************************)
(* ConcSpec: app.py serving NumProcs requests at once on the one file      *)
(* cfile.  pc[p] is where request p stands, job[p] what was asked,         *)
(* courses[p] the local list of save_courses, off[p] how much of its dump  *)
(* has reached the file, conn[p] the notices and the response.  The rest   *)
(* remembers the run: loaded_before[p] is the set of requests that had     *)
(* loaded when p opened the file for writing, alone[p] whether nobody else *)
(* has opened or written the file since, and in_window[p] whether p loaded *)
(* while a writer that was alone stood between its open() and the end of   *)
(* its dump.                                                               *)
(***************************************************************************)
VARIABLES cfile, pc, job, courses, off, conn, loaded_before, alone, in_window

concvars == <<cfile, pc, job, courses, off, conn, loaded_before, alone, in_window>>

vars == <<seqvars, concvars>>

Procs == 1..NumProcs

NoJob == [path |-> "", form |-> NoForm]

Conn0 == [flashes |-> << >>, events |-> << >>, result |-> NoResult, shown |-> << >>]

ConcStart(f) ==
    /\ cfile = f
    /\ pc = [p \in Procs |-> "idle"]
    /\ job = [p \in Procs |-> NoJob]
    /\ courses = [p \in Procs |-> << >>]
    /\ off = [p \in Procs |-> 0]
    /\ conn = [p \in Procs |-> Conn0]
    /\ loaded_before = [p \in Procs |-> {}]
    /\ alone = [p \in Procs |-> FALSE]
    /\ in_window = [p \in Procs |-> FALSE]

Init ==
    /\ \E f \in InitFiles : srv = [a \in Apps |-> Begin(f)] /\ base = f
    /\ req = NoRequest
    /\ valid_adds = << >>
    /\ other_posts = FALSE
    /\ ConcStart(Absent)

Index ==
    /\ req' = Request("GET", "/", << >>, NoForm)
    /\ srv' = [a \in Apps |-> index(Begin(srv[a].file))]
    /\ UNCHANGED <<base, valid_adds, other_posts, concvars>>

CourseCatalog ==
    /\ req' = Request("GET", "/catalog", << >>, NoForm)
    /\ srv' = [a \in Apps |-> course_catalog(Begin(srv[a].file))]
    /\ UNCHANGED <<base, valid_adds, other_posts, concvars>>

CourseDetails(code) ==
    /\ req' = Request("GET", "/course", code, NoForm)
    /\ srv' = [a \in Apps |-> course_details(Begin(srv[a].file), code)]
    /\ UNCHANGED <<base, valid_adds, other_posts, concvars>>

AddCourseGet ==
    /\ req' = Request("GET", "/add_course", << >>, NoForm)
    /\ srv' = [a \in Apps |-> add_course(a, Begin(srv[a].file), "GET", NoForm)]
    /\ UNCHANGED <<base, valid_adds, other_posts, concvars>>

\* the guard keeps every file within MaxCourses courses.
AddCoursePost(form) ==
    /\ req' = Request("POST", "/add_course", << >>, form)
    /\ srv' = [a \in Apps |-> add_course(a, Begin(srv[a].file), "POST", form)]
    /\ \A a \in Apps :
          srv'[a].file # srv[a].file => Count(srv[a].file) < MaxCourses
    /\ valid_adds' = IF AllPresent(form) /\ load_courses(base).ok
                     THEN Append(valid_adds, course_of(form)) ELSE valid_adds
    /\ other_posts' = (other_posts \/ ~AllPresent(form))
    /\ UNCHANGED <<base, concvars>>

Next ==
    \/ Index
    \/ CourseCatalog
    \/ \E code \in PathCodes : CourseDetails(code)
    \/ AddCourseGet
    \/ \E form \in Forms : AddCoursePost(form)

Spec == Init /\ [][Next]_vars

(***************************************************************************)
(* The steps of ConcSpec.                                                  *)
(***************************************************************************)
\* the courses submitted concurrently: their dumps differ in length.
ConcForms ==
    { Form(<<"n">>, <<"i">>, <<"s">>, <<"x">>),
      Form(<<"m">>, <<"i">>, <<"t">>, <<"y", "z">>),
      Form(<< >>, <<"i">>, <<"s">>, <<"x">>) }

ConcInitFiles ==
    {Absent, FileOf(json_dump(<< >>)),
     FileOf(json_dump(<<Form(<<"n">>, <<"i">>, <<"t">>, <<"y">>)>>))}

ConcInit ==
    /\ srv = [a \in Apps |-> Begin(Absent)]
    /\ base = Absent
    /\ req = NoRequest
    /\ valid_adds = << >>
    /\ other_posts = FALSE
    /\ \E f \in ConcInitFiles : ConcStart(f)

Loaded(p) == pc[p] \in {"open", "write", "respond", "done"}

Succeeded(p) ==
    /\ pc[p] = "done"
    /\ job[p].path = "/add_course"
    /\ conn[p].result = [kind |-> "redirect", target |-> "course_catalog"]

\* p has left the `with open(...)` block of save_courses.
Closed(p) == pc[p] = "respond" \/ Succeeded(p)

Opened(p) == pc[p] = "write" \/ Closed(p)

InWindow(p) == pc[p] = "write" /\ alone[p]

\* GET /catalog arrives: course_catalog is about to call load_courses.
StartCatalog(p) ==
    /\ pc[p] = "idle"
    /\ pc' = [pc EXCEPT ![p] = "load"]
    /\ job' = [job EXCEPT ![p] = [path |-> "/catalog", form |-> NoForm]]
    /\ UNCHANGED <<cfile, courses, off, conn, loaded_before, alone, in_window,
                   seqvars>>

\* POST /add_course arrives: the form is checked; with a field missing the
\* request ends here, else save_courses is about to call load_courses.
StartAddCourse(p, form) ==
    /\ pc[p] = "idle"
    /\ job' = [job EXCEPT ![p] = [path |-> "/add_course", form |-> form]]
    /\ IF missing_fields(form) # << >>
       THEN /\ conn' = [conn EXCEPT ![p] =
                  redirect(flash(@, missing_message(missing_fields(form)), "error"),
                           "add_course")]
            /\ pc' = [pc EXCEPT ![p] = "done"]
       ELSE /\ pc' = [pc EXCEPT ![p] = "load"]
            /\ UNCHANGED conn
    /\ UNCHANGED <<cfile, courses, off, loaded_before, alone, in_window, seqvars>>

\* load_courses(), in course_catalog or in save_courses (with the append).
Load(p) ==
    /\ pc[p] = "load"
    /\ in_window' = [in_window EXCEPT ![p] = \E q \in Procs : InWindow(q)]
    /\ LET l == load_courses(cfile)
       IN  IF ~l.ok
           THEN /\ conn' = [conn EXCEPT ![p] = raise(@, "JSONDecodeError")]
                /\ pc' = [pc EXCEPT ![p] = "done"]
                /\ UNCHANGED courses
           ELSE IF job[p].path = "/catalog"
           THEN /\ conn' = [conn EXCEPT ![p] =
                       render_template(@, "course_catalog.html", l.val)]
                /\ pc' = [pc EXCEPT ![p] = "done"]
                /\ UNCHANGED courses
           ELSE /\ courses' = [courses EXCEPT ![p] =
                                  Append(l.val, course_of(job[p].form))]
                /\ pc' = [pc EXCEPT ![p] = "open"]
                /\ UNCHANGED conn
    /\ UNCHANGED <<cfile, job, off, loaded_before, alone, seqvars>>

\* open(COURSE_FILE, 'w') of save_courses.
Open(p) ==
    /\ pc[p] = "open"
    /\ cfile' = open_w(cfile)
    /\ off' = [off EXCEPT ![p] = 0]
    /\ pc' = [pc EXCEPT ![p] = "write"]
    /\ loaded_before' = [loaded_before EXCEPT ![p] = {q \in Procs : Loaded(q)}]
    /\ alone' = [q \in Procs |-> q = p]
    /\ UNCHANGED <<job, courses, conn, in_window, seqvars>>

\* json.dump into the file object: one write() per full buffer, the last
\* one when the `with` block closes the file.
Write(p) ==
    /\ pc[p] = "write"
    /\ LET text == json_dump(courses[p])
           end  == IF off[p] + BufSize < Len(text) THEN off[p] + BufSize
                   ELSE Len(text)
       IN  /\ cfile' = FileOf(write_at(cfile.text, off[p],
                                       SubSeq(text, off[p] + 1, end)))
           /\ off' = [off EXCEPT ![p] = end]
           /\ pc' = [pc EXCEPT ![p] = IF end = Len(text) THEN "respond" ELSE "write"]
    /\ alone' = [q \in Procs |-> q = p /\ alone[p]]
    /\ UNCHANGED <<job, courses, conn, loaded_before, in_window, seqvars>>

\* add_course after save_courses returned: flash the success and redirect.
Respond(p) ==
    /\ pc[p] = "respond"
    /\ conn' = [conn EXCEPT ![p] =
           redirect(flash(@, added_message(job[p].form.name), "success"),
                    "course_catalog")]
    /\ pc' = [pc EXCEPT ![p] = "done"]
    /\ UNCHANGED <<cfile, job, courses, off, loaded_before, alone, in_window,
                   seqvars>>

ConcNext ==
    \E p \in Procs :
        \/ StartCatalog(p)
        \/ \E form \in ConcForms : StartAddCourse(p, form)
        \/ Load(p)
        \/ Open(p)
        \/ Write(p)
        \/ Respond(p)

ConcSpec == ConcInit /\ [][ConcNext]_vars


(***************************************************************************)
(* Properties of Spec.                                                     *)
(***************************************************************************)
Redirect(endpoint) == [kind |-> "redirect", target |-> endpoint]

Categories(w) == [i \in DOMAIN w.flashes |-> w.flashes[i].category]

\* what a request came to: the response and the kinds of its notices.
Outcome(w) == <<w.result, Categories(w)>>

HasCode(list, code) == \E i \in DOMAIN list : list[i].code = code

\* C1: from a well-formed (or absent) initial collection C, as long as every
\* POST /add_course had all four fields, each entry point's file holds
\* exactly C followed by the added courses in call order, /catalog lists
\* exactly that, and right after an add the last course of the reloaded
\* file is the one just added.
C1_AppendInCallOrder ==
    load_courses(base).ok /\ ~other_posts =>
        \A a \in Apps :
            LET l == load_courses(srv[a].file)
            IN  /\ l.ok
                /\ l.val = load_courses(base).val \o valid_adds
                /\ req.path = "/catalog" => srv[a].shown = l.val
                /\ req.method = "POST" =>
                      /\ l.val # << >>
                      /\ l.val[Len(l.val)] = course_of(req.form)

C1_Witness ==
    /\ ~other_posts
    /\ Len(valid_adds) = 2
    /\ valid_adds[1] # valid_adds[2]
    /\ req.method = "POST"
    /\ \A a \in Apps : load_courses(srv[a].file).val = valid_adds

\* C2: the detail page of /course/<code> shows the first course, in file
\* order, whose code is <code>.
C2_FirstMatch ==
    \A a \in Apps :
        req.path = "/course" /\ srv[a].result.kind = "render" =>
            LET l == load_courses(srv[a].file).val
            IN  \E i \in DOMAIN l :
                    /\ l[i].code = req.code
                    /\ \A j \in 1..(i - 1) : l[j].code # req.code
                    /\ srv[a].shown = <<l[i]>>

C2_Witness ==
    /\ req.path = "/course"
    /\ \E a \in Apps :
          LET l == load_courses(srv[a].file).val
          IN  /\ srv[a].result.kind = "render"
              /\ Len(l) = 2
              /\ l[1].code = req.code /\ l[2].code = req.code
              /\ l[1] # l[2]

NotFound(w) ==
    /\ w.result = Redirect("course_catalog")
    /\ Len(w.flashes) = 1
    /\ w.flashes[1].category = "error"
    /\ w.shown = << >>

\* C3: with a file that is absent or parses, GET /course/<code> answers
\* NotFound (one error notice, a redirect to /catalog, no detail page)
\* exactly when no stored course has the code, and then leaves the file as
\* it was.
C3_NotFound ==
    [][req'.path = "/course" =>
          \A a \in Apps :
              LET l == load_courses(srv[a].file)
              IN  l.ok =>
                     /\ NotFound(srv'[a]) <=> ~HasCode(l.val, req'.code)
                     /\ NotFound(srv'[a]) => srv'[a].file = srv[a].file]_vars

C3_Witness ==
    /\ req.path = "/course"
    /\ \A a \in Apps :
          /\ Count(srv[a].file) >= 1
          /\ ~HasCode(load_courses(srv[a].file).val, req.code)
          /\ NotFound(srv[a])

FieldLabels == <<"Course Name", "Instructor", "Semester", "Course Code">>

IsFieldLabel(x) == \E i \in DOMAIN FieldLabels : FieldLabels[i] = x

\* the labels of the fields of the form that are absent or empty, in the
\* order of the form.
RECURSIVE LabelsOfMissing(_, _)
LabelsOfMissing(form, i) ==
    IF i > Len(Keys) THEN << >>
    ELSE (IF form[Keys[i]] = None \/ Len(form[Keys[i]]) = 0
          THEN <<FieldLabels[i]>> ELSE << >>)
         \o LabelsOfMissing(form, i + 1)

\* C4: in app.py, app_jaeger.py and jaeger_trail.py a POST /add_course with
\* a field absent or empty leaves the file as it was, redirects to the form
\* and flashes one error notice that names exactly the missing fields, in
\* the order Course Name, Instructor, Semester, Course Code.
C4_ValidationError ==
    [][req'.method = "POST" /\ ~AllPresent(req'.form) =>
          \A a \in StrictApps :
              /\ srv'[a].file = srv[a].file
              /\ srv'[a].result = Redirect("add_course")
              /\ Len(srv'[a].flashes) = 1
              /\ srv'[a].flashes[1].category = "error"
              /\ SelectSeq(srv'[a].flashes[1].message, IsFieldLabel)
                    = LabelsOfMissing(req'.form, 1)]_vars

C4_Witness ==
    /\ req.method = "POST"
    /\ Falsy(req.form.instructor) /\ Falsy(req.form.code)
    /\ ~Falsy(req.form.name) /\ ~Falsy(req.form.semester)
    /\ \A a \in StrictApps :
          /\ Count(srv[a].file) >= 1
          /\ SelectSeq(srv[a].flashes[1].message, IsFieldLabel)
                = <<"Instructor", "Course Code">>

\* C5: with a file that is absent or parses, a POST /add_course with all
\* four fields non-empty appends exactly the submitted course, then flashes
\* one success notice and no other, then redirects to /catalog.
C5_AddSucceeds ==
    [][req'.method = "POST" /\ AllPresent(req'.form) =>
          \A a \in Apps :
              LET l == load_courses(srv[a].file)
              IN  l.ok =>
                     /\ srv'[a].file.exists
                     /\ load_courses(srv'[a].file)
                           = [ok |-> TRUE,
                              val |-> Append(l.val, course_of(req'.form))]
                     /\ Categories(srv'[a]) = <<"success">>
                     /\ srv'[a].result = Redirect("course_catalog")
                     /\ srv'[a].events = <<"write", "flash", "redirect">>]_vars

C5_Witness ==
    /\ req.method = "POST" /\ AllPresent(req.form)
    /\ \A a \in Apps :
          /\ Count(srv[a].file) = 2
          /\ srv[a].result = Redirect("course_catalog")
          /\ srv[a].events = <<"write", "flash", "redirect">>

\* C6: every entry point rejects a POST /add_course whose code is absent or
\* empty, and no file ever holds a course whose code is absent or empty.
C6_CodeRequired ==
    \A a \in Apps :
        /\ req.method = "POST" /\ Falsy(req.form.code) =>
              /\ srv[a].result = Redirect("add_course")
              /\ Categories(srv[a]) = <<"error">>
        /\ LET l == load_courses(srv[a].file).val
           IN  \A i \in DOMAIN l : ~Falsy(l[i].code)

Loads(r) ==
    \/ r.path = "/catalog"
    \/ r.path = "/course"
    \/ r.method = "POST" /\ AllPresent(r.form)

\* C7: a request that loads the file finds the empty list when there is no
\* file, and raises nothing: /catalog lists nothing and a valid add leaves a
\* file of one course.  When the file is there but cut short, the request
\* ends in JSONDecodeError, with no notice and the file as it was.
C7_LoadAbsentOrMalformed ==
    [][Loads(req') =>
          \A a \in Apps :
              /\ ~srv[a].file.exists =>
                    /\ srv'[a].result.kind # "error"
                    /\ req'.path = "/catalog" =>
                          /\ srv'[a].result.kind = "render"
                          /\ srv'[a].shown = << >>
                    /\ req'.method = "POST" =>
                          load_courses(srv'[a].file)
                             = [ok |-> TRUE, val |-> <<course_of(req'.form)>>]
              /\ srv[a].file.exists /\ srv[a].file.text \in TruncatedTexts =>
                    /\ srv'[a].result = [kind |-> "error", target |-> "JSONDecodeError"]
                    /\ srv'[a].flashes = << >>
                    /\ srv'[a].shown = << >>
                    /\ srv'[a].file = srv[a].file]_vars

C7_Witness ==
    /\ req.path = "/catalog"
    /\ base.exists /\ base.text \in TruncatedTexts /\ Len(base.text) > 2
    /\ \A a \in Apps :
          /\ srv[a].file = base
          /\ srv[a].result = [kind |-> "error", target |-> "JSONDecodeError"]

\* C8 as stated: the five entry points hold the same file and came to the
\* same outcome after every request.
C8_AllIdentical ==
    \A a, b \in Apps :
        srv[a].file = srv[b].file /\ Outcome(srv[a]) = Outcome(srv[b])

Rejected(w) == w.result = Redirect("add_course") /\ Categories(w) = <<"error">>

\* a POST that has name and instructor but lacks the semester or the code.
Divergent(r) ==
    /\ r.method = "POST"
    /\ ~Falsy(r.form.name) /\ ~Falsy(r.form.instructor)
    /\ Falsy(r.form.semester) \/ Falsy(r.form.code)

\* C8 amended: app.py, app_jaeger.py and jaeger_trail.py always agree with
\* each other, and so do app2.py and app3.py.  From equal files all five
\* come to the same file and the same outcome for every request but a POST
\* /add_course that has name and instructor and lacks the semester or the
\* code: the first three reject it and keep their file, app2.py and app3.py
\* do not reject it, and store it when their file loads.
C8_AgreeButOnOptionalFields ==
    [][/\ \A a, b \in StrictApps : srv'[a] = srv'[b]
       /\ \A a, b \in Apps \ StrictApps : srv'[a] = srv'[b]
       /\ (\A a, b \in Apps : srv[a].file = srv[b].file) =>
             IF Divergent(req')
             THEN /\ \A a \in StrictApps :
                        Rejected(srv'[a]) /\ srv'[a].file = srv[a].file
                  /\ \A a \in Apps \ StrictApps :
                        /\ ~Rejected(srv'[a])
                        /\ load_courses(srv[a].file).ok =>
                              load_courses(srv'[a].file).val
                                 = Append(load_courses(srv[a].file).val,
                                          course_of(req'.form))
             ELSE \A a, b \in Apps :
                     /\ srv'[a].file = srv'[b].file
                     /\ Outcome(srv'[a]) = Outcome(srv'[b])]_vars

C8_Witness ==
    /\ Divergent(req)
    /\ \A a \in StrictApps : Rejected(srv[a]) /\ Count(srv[a].file) = 1
    /\ \A a \in Apps \ StrictApps :
          /\ srv[a].result = Redirect("course_catalog")
          /\ Count(srv[a].file) = 2

\* old is a prefix of new, and new has exactly one course more.
ExtendsByOne(old, new) ==
    /\ Len(new) = Len(old) + 1
    /\ SubSeq(new, 1, Len(old)) = old

\* C11: requests served one after another.  Every request leaves each entry
\* point's file as it was, or turns a collection that loads into the same
\* collection with exactly one course more at the end, the course of the
\* form: what was stored is a prefix of what is stored, nothing is changed,
\* moved or removed.  The file changes exactly when the request is a POST
\* /add_course that ends in the success notice and the redirect to
\* /catalog; every GET and every rejected POST leave it as it was.
C11_AppendOnly ==
    [][\A a \in Apps :
          LET added == /\ req'.method = "POST"
                       /\ srv'[a].result = Redirect("course_catalog")
                       /\ Categories(srv'[a]) = <<"success">>
          IN  /\ srv'[a].file # srv[a].file <=> added
              /\ srv'[a].file # srv[a].file =>
                    LET old == load_courses(srv[a].file)
                        new == load_courses(srv'[a].file)
                    IN  /\ old.ok /\ new.ok
                        /\ ExtendsByOne(old.val, new.val)
                        /\ new.val[Len(new.val)] = course_of(req'.form)
              /\ req'.method = "GET" => srv'[a].file = srv[a].file
              /\ Rejected(srv'[a]) => srv'[a].file = srv[a].file]_vars

\* a stored course, one add, then a rejected POST: the file still holds
\* the stored course followed by the added one.
C11_Witness ==
    /\ Len(valid_adds) = 1 /\ other_posts
    /\ \A a \in Apps :
          /\ Rejected(srv[a])
          /\ Len(load_courses(base).val) = 1
          /\ load_courses(srv[a].file).val = load_courses(base).val \o valid_adds

(***************************************************************************)
(* Properties of ConcSpec.                                                 *)
(***************************************************************************)
Front(list) == SubSeq(list, 1, Len(list) - 1)

\* p and q both loaded before either opened the file for writing.
BothLoadedFirst(p, q) == q \in loaded_before[p] /\ p \in loaded_before[q]

\* C9: two adds that both loaded before either wrote and both reported
\* success.  If q wrote after p was done writing and nobody has touched the
\* file since, the file is exactly q's dump: what q loaded and q's course.
\* If no third request wrote, that is what p loaded followed by q's course
\* alone, and in no case does a file that parses hold both new courses.
C9_LostUpdate ==
    \A p, q \in Procs :
        p # q /\ Succeeded(p) /\ Succeeded(q) /\ BothLoadedFirst(p, q) =>
            /\ alone[q] =>
                  /\ cfile = FileOf(json_dump(courses[q]))
                  /\ load_courses(cfile) = [ok |-> TRUE, val |-> courses[q]]
            /\ (\A r \in Procs : Opened(r) => r \in {p, q}) =>
                  /\ alone[q] =>
                        load_courses(cfile).val
                           = Append(Front(courses[p]), course_of(job[q].form))
                  /\ load_courses(cfile).ok =>
                        Len(load_courses(cfile).val) = Len(Front(courses[p])) + 1

C9_Witness ==
    \E p, q \in Procs :
        /\ p # q /\ Succeeded(p) /\ Succeeded(q) /\ BothLoadedFirst(p, q)
        /\ alone[q]
        /\ Categories(conn[p]) = <<"success">> /\ Categories(conn[q]) = <<"success">>
        /\ job[p].form # job[q].form
        /\ LET l == load_courses(cfile)
           IN  /\ l.ok
               /\ l.val[Len(l.val)] = course_of(job[q].form)
               /\ \A i \in DOMAIN l.val : l.val[i] # course_of(job[p].form)

\* C10: while a writer stands between its open() and the end of its dump,
\* and nobody else has touched the file since that open(), the file holds a
\* proper prefix of the new text: neither the old collection nor the new
\* one, and nothing json.load accepts.  A request that loads then ends in
\* JSONDecodeError.
C10_TornRead ==
    /\ \A p \in Procs :
          InWindow(p) =>
              LET new == json_dump(courses[p])
              IN  /\ off[p] < Len(new)
                  /\ cfile = FileOf(SubSeq(new, 1, off[p]))
                  /\ cfile.text # new
                  /\ cfile.text # json_dump(Front(courses[p]))
                  /\ ~load_courses(cfile).ok
    /\ \A r \in Procs :
          in_window[r] =>
              /\ pc[r] = "done"
              /\ conn[r].result = [kind |-> "error", target |-> "JSONDecodeError"]

\* the reader failed although the file parsed before the add and parses
\* after it.
C10_Witness ==
    \E p, r \in Procs :
        /\ p # r
        /\ job[r].path = "/catalog" /\ in_window[r]
        /\ conn[r].result = [kind |-> "error", target |-> "JSONDecodeError"]
        /\ Succeeded(p) /\ alone[p]
        /\ Len(courses[p]) = 2
        /\ load_courses(cfile) = [ok |-> TRUE, val |-> courses[p]]

=============================================================================
